---- MODULE Spec2Model ----
(***************************************************************************)
(* BunCache (src/src/index.ts): a key-value cache with TTL expiration over *)
(* one SQLite table  cache(key TEXT PRIMARY KEY, value TEXT, ttl INTEGER). *)
(* The table is a set of rows, Date.now() is the variable now, and every   *)
(* public method is one action.  A storage statement that raises is an     *)
(* input of the action (a boolean drawn with \E).                          *)
(***************************************************************************)
EXTENDS Integers, Sequences, FiniteSets, TLC

\* cache: the rows of the table.  now: Date.now().
\* last: the call that made the latest step (op, key, what it gave back,
\*   whether a storage statement raised in it, and whether it met a row for
\*   the key, and an expired one).
\* hist: per key, what the calls so far did to it: never put, put (the value
\*   argument of the latest put that succeeded and the instant write time +
\*   ttl at which it expires), or deleted since.
\* inflight: per client of a shared table, whether it stands between the
\*   lookup and the delete of a get (with one client alone, as in Spec, a
\*   get runs to its end and nobody is ever in between).
VARIABLES cache, now, last, hist, inflight

(* ------------------------------ bounds -------------------------------- *)
\* The clock Date.now() ranges over 0..MaxTime.
MaxTime == 2
\* The ttl argument of put ranges over 0..MaxTtl (or is undefined).
MaxTtl == 1

Keys == {"k1", "k2"}

(* --------------------------- JavaScript values ------------------------ *)
\* Text is a sequence of one-character strings.
QUOTE == "\""
BSLASH == "\\"

JsNull == [t |-> "null"]
JsTrue == [t |-> "bool", b |-> TRUE]
JsFalse == [t |-> "bool", b |-> FALSE]
JsStr(s) == [t |-> "str", s |-> s]
JsNum(n) == [t |-> "num", n |-> n]
JsArr(a) == [t |-> "arr", a |-> a]
\* An object is the sequence of its members <<key text, value>>, in order.
JsObj(m) == [t |-> "obj", m |-> m]

\* The value arguments put is called with: null, the empty string, a string
\* holding a quote (which JSON must escape) and the structured value
\* {a: [1, null]}.
Values ==
  { JsNull,
    JsStr(<<>>),
    JsStr(<<"a", QUOTE>>),
    JsObj(<< <<(<<"a">>), JsArr(<<JsNum(1), JsNull>>)>> >>) }

\* JavaScript truthiness of a put argument (value ? ... : ...): null and the
\* empty string are falsy, every other string and every object is truthy.
Truthy(v) ==
  CASE v.t = "null" -> FALSE
    [] v.t = "str" -> v.s # <<>>
    [] v.t = "bool" -> v.b
    [] v.t = "num" -> v.n # 0
    [] OTHER -> TRUE

(* ------------------------------ JSON ---------------------------------- *)
RECURSIVE EscapeText(_)
\* The body of a JSON string literal: quote and backslash get a backslash.
EscapeText(s) ==
  IF s = <<>> THEN <<>>
  ELSE (IF Head(s) \in {QUOTE, BSLASH} THEN <<BSLASH, Head(s)>> ELSE <<Head(s)>>)
       \o EscapeText(Tail(s))

QuoteText(s) == <<QUOTE>> \o EscapeText(s) \o <<QUOTE>>

Digits == <<"0", "1", "2", "3", "4", "5", "6", "7", "8", "9">>
DigitChars == {Digits[i] : i \in 1..10}
DigitOf(c) == (CHOOSE i \in 1..10 : Digits[i] = c) - 1

RECURSIVE NumText(_)
NumText(n) == IF n < 10 THEN <<Digits[n + 1]>> ELSE NumText(n \div 10) \o <<Digits[(n % 10) + 1]>>

RECURSIVE JSONstringify(_), StringifyElems(_), StringifyMembers(_)
\* JSON.stringify on the values above.
JSONstringify(v) ==
  CASE v.t = "null" -> <<"n", "u", "l", "l">>
    [] v.t = "bool" -> IF v.b THEN <<"t", "r", "u", "e">> ELSE <<"f", "a", "l", "s", "e">>
    [] v.t = "str" -> QuoteText(v.s)
    [] v.t = "num" -> NumText(v.n)
    [] v.t = "arr" -> <<"[">> \o StringifyElems(v.a) \o <<"]">>
    [] v.t = "obj" -> <<"{">> \o StringifyMembers(v.m) \o <<"}">>

StringifyElems(a) ==
  IF a = <<>> THEN <<>>
  ELSE JSONstringify(Head(a))
       \o (IF Tail(a) = <<>> THEN <<>> ELSE <<",">> \o StringifyElems(Tail(a)))

StringifyMembers(m) ==
  IF m = <<>> THEN <<>>
  ELSE QuoteText(Head(m)[1]) \o <<":">> \o JSONstringify(Head(m)[2])
       \o (IF Tail(m) = <<>> THEN <<>> ELSE <<",">> \o StringifyMembers(Tail(m)))

\* A parse result: ok, the value, and the position after it.
PFail == [ok |-> FALSE, v |-> JsNull, i |-> 0]
POk(v, i) == [ok |-> TRUE, v |-> v, i |-> i]

At(txt, i) == IF i \in 1..Len(txt) THEN txt[i] ELSE "EOF"

Matches(txt, i, word) ==
  /\ i + Len(word) - 1 <= Len(txt)
  /\ \A j \in 1..Len(word) : txt[i + j - 1] = word[j]

RECURSIVE ParseStringBody(_, _, _)
\* The characters of a string literal from position i up to its closing quote.
ParseStringBody(txt, i, acc) ==
  LET c == At(txt, i) IN
  IF c = "EOF" THEN PFail
  ELSE IF c = QUOTE THEN POk(JsStr(acc), i + 1)
  ELSE IF c = BSLASH
    THEN IF At(txt, i + 1) \in {QUOTE, BSLASH}
         THEN ParseStringBody(txt, i + 2, Append(acc, At(txt, i + 1)))
         ELSE PFail
  ELSE ParseStringBody(txt, i + 1, Append(acc, c))

RECURSIVE ParseNumber(_, _, _)
ParseNumber(txt, i, acc) ==
  IF At(txt, i) \in DigitChars
  THEN ParseNumber(txt, i + 1, acc * 10 + DigitOf(At(txt, i)))
  ELSE POk(JsNum(acc), i)

RECURSIVE ParseValue(_, _), ParseElems(_, _, _), ParseMembers(_, _, _)
ParseValue(txt, i) ==
  LET c == At(txt, i) IN
  CASE c = QUOTE -> ParseStringBody(txt, i + 1, <<>>)
    [] c \in DigitChars ->
         IF c = "0" /\ At(txt, i + 1) \in DigitChars THEN PFail ELSE ParseNumber(txt, i, 0)
    [] c = "n" -> IF Matches(txt, i, <<"n", "u", "l", "l">>) THEN POk(JsNull, i + 4) ELSE PFail
    [] c = "t" -> IF Matches(txt, i, <<"t", "r", "u", "e">>) THEN POk(JsTrue, i + 4) ELSE PFail
    [] c = "f" -> IF Matches(txt, i, <<"f", "a", "l", "s", "e">>) THEN POk(JsFalse, i + 5) ELSE PFail
    [] c = "[" -> IF At(txt, i + 1) = "]" THEN POk(JsArr(<<>>), i + 2)
                  ELSE ParseElems(txt, i + 1, <<>>)
    [] c = "{" -> IF At(txt, i + 1) = "}" THEN POk(JsObj(<<>>), i + 2)
                  ELSE ParseMembers(txt, i + 1, <<>>)
    [] OTHER -> PFail

ParseElems(txt, i, acc) ==
  LET e == ParseValue(txt, i) IN
  IF ~e.ok THEN PFail
  ELSE IF At(txt, e.i) = "," THEN ParseElems(txt, e.i + 1, Append(acc, e.v))
  ELSE IF At(txt, e.i) = "]" THEN POk(JsArr(Append(acc, e.v)), e.i + 1)
  ELSE PFail

ParseMembers(txt, i, acc) ==
  IF At(txt, i) # QUOTE THEN PFail
  ELSE LET k == ParseStringBody(txt, i + 1, <<>>) IN
    IF ~k.ok \/ At(txt, k.i) # ":" THEN PFail
    ELSE LET e == ParseValue(txt, k.i + 1) IN
      IF ~e.ok THEN PFail
      ELSE IF At(txt, e.i) = "," THEN ParseMembers(txt, e.i + 1, Append(acc, <<k.v.s, e.v>>))
      ELSE IF At(txt, e.i) = "}" THEN POk(JsObj(Append(acc, <<k.v.s, e.v>>)), e.i + 1)
      ELSE PFail

\* JSON.parse: the text must be one value and nothing more; ok = FALSE is
\* the SyntaxError it throws.
JSONparse(txt) ==
  LET r == ParseValue(txt, 1) IN
  IF r.ok /\ r.i = Len(txt) + 1 THEN r ELSE PFail

(* ---------------------------- SQLite table ---------------------------- *)
\* A column value: NULL, a TEXT or an INTEGER.
SqlNull == [null |-> TRUE]
SqlText(s) == [null |-> FALSE, text |-> s]
SqlInt(n) == [null |-> FALSE, int |-> n]

\* The ttl argument of put: undefined (left out) or a number of milliseconds.
Undefined == [undef |-> TRUE]
Ms(n) == [undef |-> FALSE, ms |-> n]
TtlArgs == {Undefined} \cup {Ms(n) : n \in 0..MaxTtl}

\* SELECT ... FROM cache WHERE key = ?  with Statement.get: the first row
\* that matches, or null (found = FALSE) when none does.
QueryGet(tbl, key) ==
  LET rows == {r \in tbl : r.key = key} IN
  IF rows = {} THEN [found |-> FALSE]
  ELSE [found |-> TRUE, row |-> CHOOSE r \in rows : TRUE]

\* INSERT OR REPLACE INTO cache VALUES (?, ?, ?): key is the PRIMARY KEY, so
\* the row that holds it, if any, is removed and the new one inserted.
InsertOrReplace(tbl, key, value, ttl) ==
  {r \in tbl : r.key # key} \cup {[key |-> key, value |-> value, ttl |-> ttl]}

\* Mutant of DeleteByKey: the WHERE clause is missing.
DeleteEveryRow(tbl, key) == {}

\* DELETE FROM cache WHERE key = ?
DeleteByKey(tbl, key) == {r \in tbl : r.key # key}

(* ------------------------------ BunCache ------------------------------ *)
\* What a call gives back: it threw, or it returned the JavaScript value v;
\* cache is the table it leaves; path names the return statement taken.
Return(tbl, v, path) == [threw |-> FALSE, v |-> v, cache |-> tbl, path |-> path]
Throw(tbl) == [threw |-> TRUE, v |-> JsNull, cache |-> tbl, path |-> "throw"]

\* Mutant of delete: false when no row held the key.
deleteStrict(tbl, key, raises) ==
  IF raises \/ ~QueryGet(tbl, key).found THEN Return(tbl, JsFalse, "catch")
  ELSE Return(DeleteByKey(tbl, key), JsTrue, "ok")

\* delete(key): raises says whether the DELETE statement throws.
delete(tbl, key, raises) ==
  IF raises THEN Return(tbl, JsFalse, "catch")
  ELSE Return(DeleteByKey(tbl, key), JsTrue, "ok")

\* Mutant of expirationTime: ttl is tested for truthiness, so 0 counts as
\* left out.
expirationTimeTruthy(ttl, currentTime) ==
  IF ttl.undef \/ ttl.ms = 0 THEN SqlNull ELSE SqlInt(currentTime + ttl.ms)

\* typeof ttl === "undefined" ? null : Date.now() + ttl
expirationTime(ttl, currentTime) ==
  IF ttl.undef THEN SqlNull ELSE SqlInt(currentTime + ttl.ms)

\* Mutant of boundValue: every value, null too, goes through JSON.stringify.
boundValueAlways(value) == SqlText(JSONstringify(value))

\* value ? JSON.stringify(value) : null
boundValue(value) ==
  IF Truthy(value) THEN SqlText(JSONstringify(value)) ELSE SqlNull

\* Mutant of put: the catch block returns true as well.
putAlwaysTrue(tbl, key, value, ttl, currentTime, raises) ==
  IF raises THEN Return(tbl, JsTrue, "catch")
  ELSE Return(InsertOrReplace(tbl, key, boundValue(value), expirationTime(ttl, currentTime)),
              JsTrue, "ok")

\* put(key, value, ttl): raises says whether the INSERT statement throws
\* (the statement is atomic: nothing is written then).
put(tbl, key, value, ttl, currentTime, raises) ==
  IF raises THEN Return(tbl, JsFalse, "catch")
  ELSE Return(InsertOrReplace(tbl, key, boundValue(value), expirationTime(ttl, currentTime)),
              JsTrue, "ok")

\* Mutant of hasKey: a row whose ttl has passed counts as absent.
hasKeyLive(tbl, key, raises) ==
  IF raises THEN Return(tbl, JsFalse, "catch")
  ELSE LET result == QueryGet(tbl, key) IN
    Return(tbl,
           IF result.found /\ (result.row.ttl = SqlNull \/ result.row.ttl.int > now)
           THEN JsTrue ELSE JsFalse, "ok")

\* Mutant of hasKey: the lookup's null is compared with undefined.
hasKeyUndefined(tbl, key, raises) ==
  IF raises THEN Return(tbl, JsFalse, "catch") ELSE Return(tbl, JsTrue, "ok")

\* hasKey(key): raises says whether the SELECT statement throws.
hasKey(tbl, key, raises) ==
  IF raises THEN Return(tbl, JsFalse, "catch")
  ELSE Return(tbl, IF QueryGet(tbl, key).found THEN JsTrue ELSE JsFalse, "ok")

\* Mutant of get: the ttl test is >= where the code has >.
getLate(tbl, key, currentTime, selectRaises, deleteRaises) ==
  IF selectRaises THEN Throw(tbl)
  ELSE LET result == QueryGet(tbl, key) IN
    IF ~result.found THEN Return(tbl, JsNull, "absent")
    ELSE IF result.row.value = SqlNull THEN Return(tbl, JsTrue, "marker")
    ELSE IF result.row.ttl = SqlNull \/ result.row.ttl.int >= currentTime
      THEN LET parsed == JSONparse(result.row.value.text) IN
           IF parsed.ok THEN Return(tbl, parsed.v, "payload")
           ELSE Return(tbl, JsStr(result.row.value.text), "raw")
    ELSE Return(delete(tbl, key, deleteRaises).cache, JsNull, "expired")

\* get(key) up to the purge (lines 37-53): the SELECT is outside any try
\* block, so when it throws (selectRaises) get throws.  path = "purge" says
\* that the row was found expired and that the purge is what comes next.
getLookup(tbl, key, currentTime, selectRaises) ==
  IF selectRaises THEN Throw(tbl)
  ELSE LET result == QueryGet(tbl, key) IN
    IF ~result.found THEN Return(tbl, JsNull, "absent")
    ELSE IF result.row.value = SqlNull THEN Return(tbl, JsTrue, "marker")
    ELSE IF result.row.ttl = SqlNull \/ result.row.ttl.int > currentTime
      THEN LET parsed == JSONparse(result.row.value.text) IN
           IF parsed.ok THEN Return(tbl, parsed.v, "payload")
           ELSE Return(tbl, JsStr(result.row.value.text), "raw")
    ELSE Return(tbl, JsNull, "purge")

\* Mutant of getPurge: the purge deletes the row only if it is still expired.
getPurgeGuarded(tbl, key, deleteRaises) ==
  IF \E r \in tbl : r.key = key /\ (r.ttl = SqlNull \/ r.ttl.int > now)
  THEN Return(tbl, JsNull, "expired")
  ELSE Return(delete(tbl, key, deleteRaises).cache, JsNull, "expired")

\* The purge of get (lines 55-56): this.delete(key), whose result is dropped,
\* then return null.
getPurge(tbl, key, deleteRaises) ==
  Return(delete(tbl, key, deleteRaises).cache, JsNull, "expired")

\* Mutant of get: the purge sweeps every expired row, not the key's alone.
getSweep(tbl, key, currentTime, selectRaises, deleteRaises) ==
  LET found == getLookup(tbl, key, currentTime, selectRaises) IN
  IF found.path = "purge"
  THEN Return(IF deleteRaises THEN tbl
              ELSE {r \in tbl : r.ttl = SqlNull \/ r.ttl.int > currentTime},
              JsNull, "expired")
  ELSE found

\* Mutant of get: the ttl is tested before the NULL value, so a valueless
\* row expires like any other.
getTtlFirst(tbl, key, currentTime, selectRaises, deleteRaises) ==
  IF selectRaises THEN Throw(tbl)
  ELSE LET result == QueryGet(tbl, key) IN
    IF ~result.found THEN Return(tbl, JsNull, "absent")
    ELSE IF result.row.ttl # SqlNull /\ result.row.ttl.int <= currentTime
      THEN getPurge(tbl, key, deleteRaises)
    ELSE getLookup(tbl, key, currentTime, selectRaises)

\* Mutant of get: a purge whose delete returned false is reported as false.
getPropagate(tbl, key, currentTime, selectRaises, deleteRaises) ==
  LET found == getLookup(tbl, key, currentTime, selectRaises) IN
  IF found.path = "purge"
  THEN LET d == delete(found.cache, key, deleteRaises) IN
       Return(d.cache, IF d.v = JsTrue THEN JsNull ELSE JsFalse, "expired")
  ELSE found

\* get(key): the lookup and, for an expired row, the purge; delete catches
\* what its statement throws (deleteRaises).
get(tbl, key, currentTime, selectRaises, deleteRaises) ==
  LET found == getLookup(tbl, key, currentTime, selectRaises) IN
  IF found.path = "purge" THEN getPurge(found.cache, key, deleteRaises) ELSE found

(* ------------------------------- state -------------------------------- *)
vars == <<cache, now, last, hist, inflight>>

NoCall ==
  [op |-> "none", key |-> "", v |-> JsNull, threw |-> FALSE, path |-> "", err |-> FALSE,
   had |-> FALSE, exp |-> FALSE]
Never == [st |-> "never"]
Deleted == [st |-> "deleted"]

\* The processes that open the same cache.sqlite (persistance = true).
Clients == {"c1", "c2"}
Idle == [at |-> "idle", key |-> ""]

HasRow(tbl, key) == \E r \in tbl : r.key = key
RowOf(tbl, key) == CHOOSE r \in tbl : r.key = key
\* A row is expired at time t when its ttl is an instant not after t.
IsExpired(row, t) == row.ttl # SqlNull /\ row.ttl.int <= t
HasExpiredRow(tbl, key, t) == HasRow(tbl, key) /\ IsExpired(RowOf(tbl, key), t)

Call(op, key, r, err) ==
  [op |-> op, key |-> key, v |-> r.v, threw |-> r.threw, path |-> r.path, err |-> err,
   had |-> HasRow(cache, key), exp |-> HasExpiredRow(cache, key, now)]

\* constructor with persistance = false: an empty in-memory table.
Init ==
  /\ cache = {}
  /\ now = 0
  /\ last = NoCall
  /\ hist = [k \in Keys |-> Never]
  /\ inflight = [c \in Clients |-> Idle]

Get(key) ==
  \E selectRaises \in BOOLEAN, deleteRaises \in BOOLEAN :
    LET r == get(cache, key, now, selectRaises, deleteRaises) IN
    /\ cache' = r.cache
    /\ last' = Call("get", key, r,
                    selectRaises \/ (deleteRaises /\ ~selectRaises /\ r.path = "expired"))
    /\ UNCHANGED <<now, hist, inflight>>

Put(key, value, ttl) ==
  \E raises \in BOOLEAN :
    LET r == put(cache, key, value, ttl, now, raises) IN
    /\ cache' = r.cache
    /\ last' = Call("put", key, r, raises)
    /\ hist' = IF raises THEN hist
               ELSE [hist EXCEPT ![key] =
                      [st |-> "put", value |-> value,
                       exp |-> IF ttl.undef THEN Undefined ELSE Ms(now + ttl.ms)]]
    /\ UNCHANGED <<now, inflight>>

Delete(key) ==
  \E raises \in BOOLEAN :
    LET r == delete(cache, key, raises) IN
    /\ cache' = r.cache
    /\ last' = Call("delete", key, r, raises)
    /\ hist' = IF raises \/ hist[key] = Never THEN hist ELSE [hist EXCEPT ![key] = Deleted]
    /\ UNCHANGED <<now, inflight>>

HasKey(key) ==
  \E raises \in BOOLEAN :
    LET r == hasKey(cache, key, raises) IN
    /\ cache' = r.cache
    /\ last' = Call("hasKey", key, r, raises)
    /\ UNCHANGED <<now, hist, inflight>>

\* The wall clock moves on between calls.
Tick ==
  /\ now < MaxTime
  /\ now' = now + 1
  /\ last' = NoCall
  /\ UNCHANGED <<cache, hist, inflight>>

Next ==
  \/ \E key \in Keys : Get(key)
  \/ \E key \in Keys, value \in Values, ttl \in TtlArgs : Put(key, value, ttl)
  \/ \E key \in Keys : Delete(key)
  \/ \E key \in Keys : HasKey(key)
  \/ Tick

Spec == Init /\ [][Next]_vars

(* ------------------- two clients on one shared table ------------------- *)
\* Each statement is atomic in SQLite, a call is not: another client's
\* statements may run between the SELECT and the DELETE of a get.  A client
\* is synchronous, so it starts no call while it is inside a get.  hist, the
\* single-client history, is not kept here.

\* put, delete and hasKey are one statement each: which client calls does
\* not matter, as long as one is free to call.
SomeClientIdle == \E c \in Clients : inflight[c] = Idle

\* Client c runs get(key) up to the purge: the call ends here unless the row
\* was found expired, and then c stands before this.delete(key).
SharedGetLookup(c, key) ==
  \E selectRaises \in BOOLEAN :
    LET r == getLookup(cache, key, now, selectRaises) IN
    /\ inflight[c] = Idle
    /\ cache' = r.cache
    /\ IF r.path = "purge"
       THEN /\ last' = Call("lookup", key, r, FALSE)
            /\ inflight' = [inflight EXCEPT ![c] = [at |-> "purge", key |-> key]]
       ELSE /\ last' = Call("get", key, r, selectRaises)
            /\ UNCHANGED inflight
    /\ UNCHANGED <<now, hist>>

\* Client c ends its get: this.delete(key), then return null.  The path
\* "seen" tells that the call just before, which another client made, was a
\* hasKey(key) that returned true.
SharedGetPurge(c) ==
  \E deleteRaises \in BOOLEAN :
    LET key == inflight[c].key
        r == getPurge(cache, key, deleteRaises) IN
    /\ inflight[c].at = "purge"
    /\ cache' = r.cache
    /\ last' = [Call("get", key, r, deleteRaises) EXCEPT !.op = "purge",
                                                         !.path = IF last.op = "hasKey" /\ last.key = key /\ last.v = JsTrue
                                                                  THEN "seen" ELSE "unseen"]
    /\ inflight' = [inflight EXCEPT ![c] = Idle]
    /\ UNCHANGED <<now, hist>>

SharedPut(key, value, ttl) ==
  \E raises \in BOOLEAN :
    LET r == put(cache, key, value, ttl, now, raises) IN
    /\ SomeClientIdle
    /\ cache' = r.cache
    /\ last' = Call("put", key, r, raises)
    /\ UNCHANGED <<now, hist, inflight>>

SharedDelete(key) ==
  \E raises \in BOOLEAN :
    LET r == delete(cache, key, raises) IN
    /\ SomeClientIdle
    /\ cache' = r.cache
    /\ last' = Call("delete", key, r, raises)
    /\ UNCHANGED <<now, hist, inflight>>

SharedHasKey(key) ==
  \E raises \in BOOLEAN :
    LET r == hasKey(cache, key, raises) IN
    /\ SomeClientIdle
    /\ cache' = r.cache
    /\ last' = Call("hasKey", key, r, raises)
    /\ UNCHANGED <<now, hist, inflight>>

NextShared ==
  \/ \E c \in Clients, key \in Keys : SharedGetLookup(c, key)
  \/ \E c \in Clients : SharedGetPurge(c)
  \/ \E key \in Keys, value \in Values, ttl \in TtlArgs : SharedPut(key, value, ttl)
  \/ \E key \in Keys : SharedDelete(key)
  \/ \E key \in Keys : SharedHasKey(key)
  \/ Tick

SpecShared == Init /\ [][NextShared]_vars
(* ----------------------------- properties ----------------------------- *)
\* get(key) has just returned (it did not throw).
GetReturned(key) == last.op = "get" /\ last.key = key /\ ~last.threw
\* hasKey(key) has just returned.
HasKeyReturned(key) == last.op = "hasKey" /\ last.key = key
\* The latest put of key that succeeded, with no delete of key since.
WasPut(key) == hist[key].st = "put"
\* That put's record has reached its expiry instant.
PutExpired(key) == ~hist[key].exp.undef /\ hist[key].exp.ms <= now
\* What get is to give back for a record put with value v: the value, and
\* true for a record put with null.
Shown(v) == IF v = JsNull THEN JsTrue ELSE v

\* C1: after put(k, v) with no ttl, v a string or a structured value, and no
\* put or delete of k since, get(k) returns a value equal to v, at every
\* clock time.
C1_RoundTrip ==
  \A k \in Keys :
    (WasPut(k) /\ hist[k].value # JsNull /\ hist[k].exp.undef /\ GetReturned(k) /\ ~last.err)
      => last.v = hist[k].value

\* C2: after put(k, v, t) at time w and no put or delete of k since, get(k)
\* returns v while now < w + t and returns null once now >= w + t.
C2_TtlWindow ==
  \A k \in Keys :
    (WasPut(k) /\ ~hist[k].exp.undef /\ GetReturned(k) /\ ~last.err)
      => last.v = (IF now < hist[k].exp.ms THEN Shown(hist[k].value) ELSE JsNull)

\* C3: get never returns the payload of an expired record: whenever get
\* returns something other than null and the presence marker true, the row it
\* read had a null ttl or a ttl strictly greater than the current time.
C3_NoExpiredPayload ==
  (last.op = "get" /\ ~last.threw
     /\ (last.path \in {"payload", "raw"} \/ last.v \notin {JsNull, JsTrue}))
    => (last.had /\ ~last.exp)

C3_Witness ==
  /\ last.op = "get" /\ last.path = "payload"
  /\ HasRow(cache, last.key) /\ RowOf(cache, last.key).ttl # SqlNull
  /\ now > 0

\* C4: when get(k) meets a row whose ttl has passed, whatever its value, the
\* row is gone afterwards: hasKey(k) right after that get returns false.
C4_ExpiredGetPurges ==
  (last.op = "get" /\ ~last.err /\ last.had /\ last.exp)
    => hasKey(cache, last.key, FALSE).v = JsFalse

\* C5: a put on a key that has a record replaces value and ttl both: the
\* get(k) that follows the second put returns the second value, or null when
\* the second put's own write time + ttl has been reached, whatever the first
\* record's value and ttl were.
C5_RePutReplaces ==
  [][\A k \in Keys :
       (/\ last.op = "put" /\ last.key = k /\ ~last.err /\ last.had
        /\ last'.op = "get" /\ last'.key = k /\ ~last'.err)
         => last'.v = (IF PutExpired(k) THEN JsNull ELSE Shown(hist[k].value))]_vars

\* C6: hasKey does not look at the ttl: as long as the record put for k has
\* not been removed, hasKey(k) returns true at every clock time, also once
\* write time + ttl has passed.
C6_HasKeyIgnoresTtl ==
  \A k \in Keys :
    (HasKeyReturned(k) /\ ~last.err /\ WasPut(k) /\ HasRow(cache, k)) => last.v = JsTrue

C6_Witness ==
  /\ last.op = "hasKey" /\ ~last.err /\ last.v = JsTrue
  /\ last.had /\ last.exp
  /\ WasPut(last.key) /\ PutExpired(last.key)

\* C7: no call ends with an exception: get, put, delete and hasKey all
\* return, also when a storage statement fails.
C7_NoThrow == last.op \in {"get", "put", "delete", "hasKey"} => ~last.threw

\* C8: after put(k, null) with no ttl, get(k) returns the boolean true and
\* hasKey(k) returns true, while get on a key with no row returns null, which
\* is another value.
C8_NullPutIsMarker ==
  /\ \A k \in Keys :
       (WasPut(k) /\ hist[k].value = JsNull /\ hist[k].exp.undef /\ ~last.err)
         => /\ GetReturned(k) => (last.v = JsTrue /\ last.v # JsNull)
            /\ HasKeyReturned(k) => last.v = JsTrue
  /\ (last.op = "get" /\ ~last.err /\ ~last.had) => (last.v = JsNull /\ last.v # JsTrue)

C8_Witness ==
  /\ last.op = "get" /\ last.v = JsTrue /\ ~last.err
  /\ WasPut(last.key) /\ hist[last.key].value = JsNull /\ hist[last.key].exp.undef

\* C9, in states: once delete(k) has succeeded and until the next put of k,
\* there is no row for k, get(k) returns null and hasKey(k) returns false.
C9_DeletedStaysAbsent ==
  \A k \in Keys :
    hist[k] = Deleted
      => /\ ~HasRow(cache, k)
         /\ GetReturned(k) => last.v = JsNull
         /\ HasKeyReturned(k) => last.v = JsFalse

\* C9, in steps: a delete(k) whose statement does not fail returns true and
\* leaves no row for k, live or expired; when k had no row it leaves the
\* whole table as it was.
C9_DeleteStep ==
  (last'.op = "delete" /\ ~last'.err)
    => /\ last'.v = JsTrue
       /\ ~HasRow(cache', last'.key)
       /\ ~HasRow(cache, last'.key) => cache' = cache

\* C9: delete(k) removes the record for k whether live or expired; after it
\* get(k) is null and hasKey(k) false until the next put; on a key with no
\* record it returns true and changes nothing.
C9_DeleteRemoves == []C9_DeletedStaysAbsent /\ [][C9_DeleteStep]_vars

C9_Witness ==
  /\ last.op = "delete" /\ ~last.err /\ last.had /\ last.exp
  /\ hist[last.key] = Deleted
  /\ cache # {}

\* C10: a key that was never put has no row, get on it returns null and
\* hasKey on it returns false, whatever was done to other keys and whatever
\* the clock.
C10_NeverPutAbsent ==
  \A k \in Keys :
    hist[k] = Never
      => /\ ~HasRow(cache, k)
         /\ GetReturned(k) => last.v = JsNull
         /\ HasKeyReturned(k) => last.v = JsFalse

C10_Witness ==
  /\ last.op = "hasKey" /\ ~last.err /\ last.v = JsFalse
  /\ hist[last.key] = Never
  /\ \E k \in Keys : HasRow(cache, k)
  /\ now > 0

\* C11: put stores a NULL value exactly when its value argument is null;
\* every other value, the empty string too, is stored as text.
C11_NullOnlyForNull ==
  \A k \in Keys :
    (last.op = "put" /\ last.key = k /\ ~last.err)
      => (RowOf(cache, k).value = SqlNull <=> hist[k].value = JsNull)

\* C12: every row's ttl is NULL when the put that wrote it had no ttl
\* argument, and otherwise that put's clock time plus its ttl argument; a put
\* with ttl 0 stores its own write time, so its row is expired from then on.
C12_TtlIsAbsolute ==
  \A k \in Keys :
    HasRow(cache, k)
      => /\ WasPut(k)
         /\ RowOf(cache, k).ttl
              = (IF hist[k].exp.undef THEN SqlNull ELSE SqlInt(hist[k].exp.ms))
         /\ (last.op = "put" /\ last.key = k /\ ~last.err /\ hist[k].exp = Ms(now))
              => (RowOf(cache, k).ttl = SqlInt(now) /\ HasExpiredRow(cache, k, now))

C12_Witness ==
  /\ last.op = "put" /\ ~last.err /\ now > 0
  /\ hist[last.key].exp = Ms(now)
  /\ RowOf(cache, last.key).ttl = SqlInt(now)

\* The rows of the table for the keys other than key.
OtherRows(tbl, key) == {r \in tbl : r.key # key}

\* C13, in steps: get(k) adds nothing and touches no other key's row; it
\* leaves the table as it was when k has no row or a row that is not expired;
\* when k's row is expired and holds text and the delete does not fail, the
\* table afterwards is the table without that one row.  hasKey leaves the
\* table as it was, and so does the passage of the clock.
C13_Step ==
  /\ last'.op = "get"
       => LET k == last'.key IN
          /\ OtherRows(cache', k) = OtherRows(cache, k)
          /\ cache' \subseteq cache
          /\ ~HasExpiredRow(cache, k, now) => cache' = cache
          /\ (HasExpiredRow(cache, k, now) /\ RowOf(cache, k).value # SqlNull /\ ~last'.err)
               => cache' = cache \ {RowOf(cache, k)}
  /\ last'.op = "hasKey" => cache' = cache
  /\ now' # now => cache' = cache

\* C13: get deletes the rows it finds expired and nothing else; hasKey never
\* changes the table; clock passage alone removes nothing.
C13_GetPurgesOnlyExpired == [][C13_Step]_vars

C13_Witness ==
  /\ last.op = "get" /\ last.path = "expired" /\ ~last.err
  /\ ~HasRow(cache, last.key)
  /\ \E r \in cache : IsExpired(r, now)

\* C14: put(k, ...) and delete(k) leave the row of every other key j as it
\* was: present or not, with the same value and ttl.
C14_OtherKeysUntouched ==
  [][last'.op \in {"put", "delete"}
       => \A j \in Keys \ {last'.key} :
            {r \in cache' : r.key = j} = {r \in cache : r.key = j}]_vars

C14_Witness ==
  /\ last.op = "delete" /\ ~last.err /\ last.had
  /\ ~HasRow(cache, last.key)
  /\ \E j \in Keys \ {last.key} : HasRow(cache, j)

\* C15, in states: put and delete return true when their statement did not
\* raise and false when it did, whether or not a row existed; hasKey returns
\* false when its lookup raised.
C15_Results ==
  /\ last.op \in {"put", "delete"}
       => /\ ~last.threw
          /\ last.v = (IF last.err THEN JsFalse ELSE JsTrue)
  /\ (last.op = "hasKey" /\ last.err) => (~last.threw /\ last.v = JsFalse)

\* C15, in steps: a put whose write failed leaves the table as it was.
C15_FailedPutStep == (last'.op = "put" /\ last'.err) => cache' = cache

\* C15: put returns true exactly when the write succeeded, and a failed put
\* changes nothing; delete returns false only when its statement failed;
\* hasKey returns false when the lookup raises.
C15_FailureResults == []C15_Results /\ [][C15_FailedPutStep]_vars

C15_Witness ==
  /\ last.op = "put" /\ last.err /\ last.v = JsFalse
  /\ last.had /\ HasRow(cache, last.key)

\* C17, in states: as long as the latest put of k was a put of null (with
\* or without ttl) and k was not deleted since, the row is in the table with
\* a NULL value and get(k) returns true, at every clock time.
C17_NullRowStays ==
  \A k \in Keys :
    (WasPut(k) /\ hist[k].value = JsNull)
      => /\ HasRow(cache, k) /\ RowOf(cache, k).value = SqlNull
         /\ GetReturned(k) => last.v = JsTrue

\* C17, in steps: a row with a NULL value is removed or changed only by a
\* delete or a put of its key.
C17_NullRowStep ==
  \A k \in Keys :
    (/\ HasRow(cache, k) /\ RowOf(cache, k).value = SqlNull
     /\ {r \in cache' : r.key = k} # {r \in cache : r.key = k})
      => (last'.op \in {"delete", "put"} /\ last'.key = k)

C18_BestEffortPurge ==
  (last.op = "get" /\ last.path = "expired" /\ last.err)
    => /\ ~last.threw /\ last.v = JsNull
       /\ HasExpiredRow(cache, last.key, now)
       /\ hasKey(cache, last.key, FALSE).v = JsTrue
       /\ \A t \in now..MaxTime :
            /\ get(cache, last.key, t, FALSE, TRUE).path = "expired"
            /\ ~HasRow(get(cache, last.key, t, FALSE, FALSE).cache, last.key)

C18_Witness ==
  /\ last.op = "get" /\ last.path = "expired" /\ last.err /\ last.v = JsNull
  /\ HasRow(cache, last.key) /\ now > 0

\* Some client stands between the lookup and the delete of get(key).
InPurgeWindow(key) == \E c \in Clients : inflight[c].at = "purge" /\ inflight[c].key = key

\* C16, in states: while a client stands between the lookup and the delete
\* of get(k), the row is still in the table unless somebody else removed it,
\* and another client's hasKey(k) returns true for it.
C16_WindowVisible ==
  (last.op = "hasKey" /\ ~last.err /\ InPurgeWindow(last.key) /\ HasRow(cache, last.key))
    => last.v = JsTrue

\* C16, in steps: the lookup of an expired row changes nothing and leaves the
\* client before the delete; the delete that ends the get, when it does not
\* fail, removes whatever row the key has by then, expired or not.
C16_PurgeStep ==
  /\ last'.op = "lookup"
       => /\ cache' = cache
          /\ HasExpiredRow(cache, last'.key, now)
          /\ \E c \in Clients : inflight'[c].at = "purge" /\ inflight'[c].key = last'.key
  /\ (last'.op = "purge" /\ ~last'.err)
       => (~HasRow(cache', last'.key) /\ OtherRows(cache', last'.key) = OtherRows(cache, last'.key))

\* C16: get's expiry path is a lookup and a delete with nothing tying them:
\* with two clients on one table, another client's calls run in between, its
\* hasKey(k) still returns true, and a row it puts afresh is removed by the
\* delete although that row is not expired.
C16_PurgeNotAtomic == []C16_WindowVisible /\ [][C16_PurgeStep]_vars

\* The purge has removed a row that was not expired (put by the other client
\* after the lookup), right after the other client's hasKey(k) returned true.
C16_Witness ==
  /\ last.op = "purge" /\ ~last.err /\ last.path = "seen"
  /\ last.had /\ ~last.exp
  /\ ~HasRow(cache, last.key)
====
